---- MODULE Spec2Model ----
(***************************************************************************)
(* Model of spark_eventlog_analyze.py: the streaming ingest of Spark event *)
(* log lines into the five correlation mappings, followed by the single    *)
(* attribution and aggregation pass of analyze_sql_breakdown, and main,    *)
(* which writes the table and ends the process.                            *)
(*                                                                         *)
(* A decoded line is a record with one field per concept the code looks up *)
(* through _g; a key that is absent from the JSON object and a key whose   *)
(* value is null both read as None, exactly as _g(..., default=None) makes *)
(* them.  Of the output columns, the nine sub-metric sums (deserialize_ms   *)
(* .. shuffle_write_bytes) are computed like executor_run_ms and are left  *)
(* out of the row.                                                         *)
(***************************************************************************)
EXTENDS Integers, Sequences, FiniteSets, TLC

VARIABLES read, pc, exec_info, exec_jobs, job_exec, stage_job, tasks_by_key, results,
          output, exit_status

vars == <<read, pc, exec_info, exec_jobs, job_exec, stage_job, tasks_by_key, results,
          output, exit_status>>

----------------------------------------------------------------------------
(* Bounds of the model *)

MaxLines == 3
MaxPaths == 2

----------------------------------------------------------------------------
(* Python values: None, an int, a str (a sequence of characters) or a      *)
(* dict of which only the "Reason" member is looked at.                    *)

None == [t |-> "none", i |-> 0, s |-> <<>>]
I(n) == [t |-> "int", i |-> n, s |-> <<>>]
S(chars) == [t |-> "str", i |-> 0, s |-> chars]
D(reason) == [t |-> "dict", i |-> 0, s |-> reason]

(* float values, kept exact as reduced fractions; FNone is a None in a     *)
(* float column.                                                           *)
FNone == [none |-> TRUE, num |-> 0, den |-> 1]

Abs(n) == IF n < 0 THEN 0 - n ELSE n

RECURSIVE Gcd(_, _)
Gcd(a, b) == IF b = 0 THEN a ELSE Gcd(b, a % b)

Frac(n, d) ==
    LET g == Gcd(Abs(n), Abs(d))
        sg == IF d < 0 THEN 0 - 1 ELSE 1
    IN [none |-> FALSE, num |-> sg * (n \div g), den |-> sg * (d \div g)]

FAdd(a, b) == Frac(a.num * b.den + b.num * a.den, a.den * b.den)

----------------------------------------------------------------------------
(* helpers *)

Digits == <<"0", "1", "2", "3", "4", "5", "6", "7", "8", "9">>

IsDigit(c) == \E k \in 1..10 : Digits[k] = c

DigitVal(c) == (CHOOSE k \in 1..10 : Digits[k] = c) - 1

RECURSIVE DigitsVal(_)
DigitsVal(cs) ==
    IF cs = <<>> THEN 0
    ELSE 10 * DigitsVal(SubSeq(cs, 1, Len(cs) - 1)) + DigitVal(cs[Len(cs)])

AllDigits(cs) == cs # <<>> /\ \A k \in 1..Len(cs) : IsDigit(cs[k])

(* int(x) succeeds: x is an int, or a str holding an optionally signed     *)
(* run of decimal digits.                                                  *)
IntOk(x) ==
    \/ x.t = "int"
    \/ /\ x.t = "str"
       /\ x.s # <<>>
       /\ IF x.s[1] \in {"-", "+"} THEN AllDigits(Tail(x.s)) ELSE AllDigits(x.s)

IntOf(x) ==
    IF x.t = "int" THEN x.i
    ELSE IF x.s[1] = "-" THEN 0 - DigitsVal(Tail(x.s))
    ELSE IF x.s[1] = "+" THEN DigitsVal(Tail(x.s))
    ELSE DigitsVal(x.s)

_as_int(x, default) == IF IntOk(x) THEN I(IntOf(x)) ELSE default

Lower(c) == IF c = "S" THEN "s" ELSE c

LowerStr(cs) == [k \in 1..Len(cs) |-> Lower(cs[k])]

StrSuccessLower == <<"s", "u", "c", "c", "e", "s", "s">>
StrSuccess == <<"S", "u", "c", "c", "e", "s", "s">>

Contains(cs, sub) ==
    \E k \in 0..(Len(cs) - Len(sub)) : SubSeq(cs, k + 1, k + Len(sub)) = sub

(* str(r) of an int: its sign and decimal digits; only the absence of      *)
(* letters matters to the caller, so the digits are those of r modulo 10.  *)
IntRepr(r) == (IF r.i < 0 THEN <<"-">> ELSE <<>>) \o <<Digits[(Abs(r.i) % 10) + 1]>>

(* variant of _success_from_task_end: without an end reason the task is    *)
(* not taken as successful                                                 *)
SuccessOnlyWhenStated(ev) ==
    LET r == ev.taskEndReason IN
    IF r.t = "none" THEN FALSE
    ELSE IF r.t = "str" THEN LowerStr(r.s) = StrSuccessLower
    ELSE IF r.t = "dict" THEN LowerStr(r.s) = StrSuccessLower
    ELSE Contains(IntRepr(r), StrSuccess)

(* lines 97-113 *)
_success_from_task_end(ev) ==
    LET r == ev.taskEndReason IN
    IF r.t = "none" THEN TRUE
    ELSE IF r.t = "str" THEN LowerStr(r.s) = StrSuccessLower
    ELSE IF r.t = "dict" THEN LowerStr(r.s) = StrSuccessLower
    ELSE Contains(IntRepr(r), StrSuccess)

RECURSIVE LStrip(_)
LStrip(cs) == IF cs # <<>> /\ cs[1] = " " THEN LStrip(Tail(cs)) ELSE cs

RECURSIVE RStrip(_)
RStrip(cs) ==
    IF cs # <<>> /\ cs[Len(cs)] = " " THEN RStrip(SubSeq(cs, 1, Len(cs) - 1)) ELSE cs

Strip(cs) == RStrip(LStrip(cs))

(* dict[k] = v *)
Put(m, k, v) == [x \in (DOMAIN m) \cup {k} |-> IF x = k THEN v ELSE m[x]]

EmptyMap == [x \in {} |-> 0]

----------------------------------------------------------------------------
(* The correlation context: the five mappings of analyze_sql_breakdown.    *)
(* tasks_by_key is kept as the sequence of its entries in insertion order, *)
(* the order in which Python iterates the dict.                            *)

EmptyCtx ==
    [exec_info |-> EmptyMap, exec_jobs |-> EmptyMap, job_exec |-> EmptyMap,
     stage_job |-> EmptyMap, tasks_by_key |-> <<>>]

Ctx ==
    [exec_info |-> exec_info, exec_jobs |-> exec_jobs, job_exec |-> job_exec,
     stage_job |-> stage_job, tasks_by_key |-> tasks_by_key]

EmptyInfo == [description |-> None, details |-> None, startTime |-> None, endTime |-> None]

EvSQLStart == {"org.apache.spark.sql.execution.ui.SparkListenerSQLExecutionStart",
               "SparkListenerSQLExecutionStart"}
EvSQLEnd == {"org.apache.spark.sql.execution.ui.SparkListenerSQLExecutionEnd",
             "SparkListenerSQLExecutionEnd"}
EvJobStart == "SparkListenerJobStart"
EvTaskEnd == "SparkListenerTaskEnd"

(* the line decodes to an object that carries a discriminator (lines 131-140) *)
IsEvent(ev) == ev.raw = "json" /\ ev.Event # ""

(* the discriminator is one a branch of lines 143-193 matches *)
IsHandled(ev) ==
    IsEvent(ev) /\ ev.Event \in (EvSQLStart \cup EvSQLEnd \cup {EvJobStart, EvTaskEnd})

OnSQLExecutionStart(c, ev) ==
    LET exid == _as_int(ev.executionId, None)
        old == IF exid.i \in DOMAIN c.exec_info THEN c.exec_info[exid.i] ELSE EmptyInfo
        desc == IF ev.description.t = "str" THEN ev.description.s ELSE <<>>
        st == ev.time
        new == [old EXCEPT !.description = S(Strip(desc)),
                           !.details = IF ev.details.t = "none" THEN S(<<>>) ELSE ev.details,
                           !.startTime = IF st # None THEN _as_int(st, None) ELSE @]
    IN IF exid = None THEN c
       ELSE [c EXCEPT !.exec_info = Put(@, exid.i, new)]

OnSQLExecutionEnd(c, ev) ==
    LET exid == _as_int(ev.executionId, None)
        old == IF exid.i \in DOMAIN c.exec_info THEN c.exec_info[exid.i] ELSE EmptyInfo
        en == ev.time
        new == [old EXCEPT !.endTime = IF en # None THEN _as_int(en, None) ELSE @]
    IN IF exid = None THEN c
       ELSE [c EXCEPT !.exec_info = Put(@, exid.i, new)]

(* the stage ids a job-start yields: the ints among the listed values *)
StageIdsOf(ev) ==
    LET src == IF ev.hasStageIds THEN ev.stageIds ELSE ev.stageInfos
    IN {_as_int(src[k], None).i : k \in {j \in 1..Len(src) : _as_int(src[j], None) # None}}

(* variant of OnJobStart: only the first execution a job is mapped to       *)
(* records the job in its job set                                          *)
OnJobStartSetOnce(c, ev) ==
    LET jobId == _as_int(ev.jobId, None)
        stage_ids == StageIdsOf(ev)
        exid_str == ev.executionIdProperty
        mapped == exid_str # None /\ IntOk(exid_str)
        exid == IntOf(exid_str)
        jobs == IF exid \in DOMAIN c.exec_jobs THEN c.exec_jobs[exid] ELSE {}
    IN IF jobId = None THEN c
       ELSE [c EXCEPT
               !.job_exec = IF mapped THEN Put(@, jobId.i, exid) ELSE @,
               !.exec_jobs = IF mapped /\ jobId.i \notin DOMAIN c.job_exec
                             THEN Put(@, exid, jobs \cup {jobId.i}) ELSE @,
               !.stage_job = [sid \in (DOMAIN @) \cup stage_ids |->
                                 IF sid \in stage_ids THEN jobId.i ELSE @[sid]]]

(* variant of OnJobStart: a job that is mapped to an execution leaves the   *)
(* job sets of the other executions                                        *)
OnJobStartMoves(c, ev) ==
    LET jobId == _as_int(ev.jobId, None)
        stage_ids == StageIdsOf(ev)
        exid_str == ev.executionIdProperty
        mapped == exid_str # None /\ IntOk(exid_str)
        exid == IntOf(exid_str)
        moved == [e \in DOMAIN c.exec_jobs |-> c.exec_jobs[e] \ {jobId.i}]
        jobs == IF exid \in DOMAIN moved THEN moved[exid] ELSE {}
    IN IF jobId = None THEN c
       ELSE [c EXCEPT
               !.job_exec = IF mapped THEN Put(@, jobId.i, exid) ELSE @,
               !.exec_jobs = IF mapped THEN Put(moved, exid, jobs \cup {jobId.i}) ELSE @,
               !.stage_job = [sid \in (DOMAIN @) \cup stage_ids |->
                                 IF sid \in stage_ids THEN jobId.i ELSE @[sid]]]

(* variant of OnJobStart: the stages are recorded only when the job-start  *)
(* carries an execution id that parses                                     *)
OnJobStartMappedOnly(c, ev) ==
    LET jobId == _as_int(ev.jobId, None)
        stage_ids == StageIdsOf(ev)
        exid_str == ev.executionIdProperty
        mapped == exid_str # None /\ IntOk(exid_str)
        exid == IntOf(exid_str)
        jobs == IF exid \in DOMAIN c.exec_jobs THEN c.exec_jobs[exid] ELSE {}
    IN IF jobId = None \/ ~mapped THEN c
       ELSE [c EXCEPT
               !.job_exec = Put(@, jobId.i, exid),
               !.exec_jobs = Put(@, exid, jobs \cup {jobId.i}),
               !.stage_job = [sid \in (DOMAIN @) \cup stage_ids |->
                                 IF sid \in stage_ids THEN jobId.i ELSE @[sid]]]

(* lines 165-190 *)
OnJobStart(c, ev) ==
    LET jobId == _as_int(ev.jobId, None)
        stage_ids == StageIdsOf(ev)
        exid_str == ev.executionIdProperty
        mapped == exid_str # None /\ IntOk(exid_str)
        exid == IntOf(exid_str)
        jobs == IF exid \in DOMAIN c.exec_jobs THEN c.exec_jobs[exid] ELSE {}
    IN IF jobId = None THEN c
       ELSE [c EXCEPT
               !.job_exec = IF mapped THEN Put(@, jobId.i, exid) ELSE @,
               !.exec_jobs = IF mapped THEN Put(@, exid, jobs \cup {jobId.i}) ELSE @,
               !.stage_job = [sid \in (DOMAIN @) \cup stage_ids |->
                                 IF sid \in stage_ids THEN jobId.i ELSE @[sid]]]

Max2(a, b) == IF a >= b THEN a ELSE b

(* variant of CpuMs: nanoseconds taken for microseconds *)
CpuMsFromMicros(cpu_ns) == Frac(cpu_ns, 1000)

(* line 215: cpu_ms = cpu_ns / 1e6 *)
CpuMs(cpu_ns) == Frac(cpu_ns, 1000000)

(* t_rec of a task-end event whose stage id is stageId *)
TaskRecord(ev, stageId) ==
    LET task_id == _as_int(ev.taskId, None)
        launch_i == IF ev.launchTime # None THEN _as_int(ev.launchTime, None) ELSE None
        finish_i == IF ev.finishTime # None THEN _as_int(ev.finishTime, None) ELSE None
        run_ms == _as_int(ev.executorRunTime, I(0)).i
        cpu_ns == _as_int(ev.executorCpuTime, I(0)).i
    IN [stageId |-> stageId,
        taskId |-> task_id,
        launch |-> launch_i,
        finish |-> finish_i,
        duration_ms |-> IF launch_i # None /\ finish_i # None
                        THEN Max2(0, finish_i.i - launch_i.i)
                        ELSE run_ms,
        run_ms |-> run_ms,
        cpu_ms |-> CpuMs(cpu_ns),
        success |-> _success_from_task_end(ev)]

KeyIndex(tbk, key) == {k \in 1..Len(tbk) : tbk[k].key = key}

(* variant of StoreTask: the record of the latest event always wins *)
StoreTaskLastWins(tbk, key, t_rec) ==
    LET at == KeyIndex(tbk, key) IN
    IF at = {} THEN Append(tbk, [key |-> key, rec |-> t_rec])
    ELSE [tbk EXCEPT ![CHOOSE j \in at : TRUE] = [key |-> key, rec |-> t_rec]]

(* variant of StoreTask: a successful record replaces whatever is stored *)
StoreTaskLatestSuccess(tbk, key, t_rec) ==
    LET at == KeyIndex(tbk, key) IN
    IF at = {} THEN Append(tbk, [key |-> key, rec |-> t_rec])
    ELSE LET k == CHOOSE j \in at : TRUE IN
         IF t_rec.success
         THEN [tbk EXCEPT ![k] = [key |-> key, rec |-> t_rec]]
         ELSE tbk

(* variant of StoreTask: a stored failure is replaced by any later record *)
StoreTaskReplaceFailed(tbk, key, t_rec) ==
    LET at == KeyIndex(tbk, key) IN
    IF at = {} THEN Append(tbk, [key |-> key, rec |-> t_rec])
    ELSE LET k == CHOOSE j \in at : TRUE IN
         IF ~tbk[k].rec.success
         THEN [tbk EXCEPT ![k] = [key |-> key, rec |-> t_rec]]
         ELSE tbk

(* lines 265-267: keep the stored record unless it is absent, or it is not *)
(* successful and the new one is                                           *)
StoreTask(tbk, key, t_rec) ==
    LET at == KeyIndex(tbk, key) IN
    IF at = {} THEN Append(tbk, [key |-> key, rec |-> t_rec])
    ELSE LET k == CHOOSE j \in at : TRUE IN
         IF ~tbk[k].rec.success /\ t_rec.success
         THEN [tbk EXCEPT ![k] = [key |-> key, rec |-> t_rec]]
         ELSE tbk

(* variant of OnTaskEnd: a task whose stage no job-start has listed yet is *)
(* dropped on arrival                                                      *)
OnTaskEndEager(c, ev) ==
    LET stageId == _as_int(ev.stageId, None)
        t_rec == TaskRecord(ev, stageId.i)
        key == <<stageId.i, t_rec.taskId>>
    IN IF stageId = None \/ stageId.i \notin DOMAIN c.stage_job THEN c
       ELSE [c EXCEPT !.tasks_by_key = StoreTask(@, key, t_rec)]

(* variant of OnTaskEnd: a task-end without a stage id is stored under     *)
(* stage 0                                                                 *)
OnTaskEndDefaultStage(c, ev) ==
    LET stageId == _as_int(ev.stageId, I(0))
        t_rec == TaskRecord(ev, stageId.i)
        key == <<stageId.i, t_rec.taskId>>
    IN [c EXCEPT !.tasks_by_key = StoreTask(@, key, t_rec)]

(* lines 193-267 *)
OnTaskEnd(c, ev) ==
    LET stageId == _as_int(ev.stageId, None)
        t_rec == TaskRecord(ev, stageId.i)
        key == <<stageId.i, t_rec.taskId>>
    IN IF stageId = None THEN c
       ELSE [c EXCEPT !.tasks_by_key = StoreTask(@, key, t_rec)]

(* one iteration of the loop over the lines of a file, lines 130-267 *)
HandleLine(c, ev) ==
    IF ~IsEvent(ev) THEN c
    ELSE IF ev.Event \in EvSQLStart THEN OnSQLExecutionStart(c, ev)
    ELSE IF ev.Event \in EvSQLEnd THEN OnSQLExecutionEnd(c, ev)
    ELSE IF ev.Event = EvJobStart THEN OnJobStart(c, ev)
    ELSE IF ev.Event = EvTaskEnd THEN OnTaskEnd(c, ev)
    ELSE c

----------------------------------------------------------------------------
(* Attribution and aggregation, lines 269-336 *)

(* variant of ExecOfTask: a task whose job has no execution is put under  *)
(* the execution id -1                                                     *)
ExecOfTaskOrUnknown(c, t) ==
    IF t.stageId \notin DOMAIN c.stage_job THEN None
    ELSE IF c.stage_job[t.stageId] \notin DOMAIN c.job_exec THEN I(0 - 1)
    ELSE I(c.job_exec[c.stage_job[t.stageId]])

(* lines 273-279: the execution a task resolves to; None when the stage    *)
(* has no job or the job has no execution                                  *)
ExecOfTask(c, t) ==
    IF t.stageId \notin DOMAIN c.stage_job THEN None
    ELSE IF c.stage_job[t.stageId] \notin DOMAIN c.job_exec THEN None
    ELSE I(c.job_exec[c.stage_job[t.stageId]])

(* tasks_by_exec, as the sequence of its (exid, ts) items in insertion order *)
RECURSIVE GroupTasks(_, _, _)
GroupTasks(c, tbk, acc) ==
    IF tbk = <<>> THEN acc
    ELSE LET t == Head(tbk).rec
             e == ExecOfTask(c, t)
             at == {k \in 1..Len(acc) : acc[k].exid = e.i}
         IN IF e = None THEN GroupTasks(c, Tail(tbk), acc)
            ELSE IF at = {}
            THEN GroupTasks(c, Tail(tbk), Append(acc, [exid |-> e.i, ts |-> <<t>>]))
            ELSE LET k == CHOOSE j \in at : TRUE IN
                 GroupTasks(c, Tail(tbk), [acc EXCEPT ![k].ts = Append(@, t)])

(* variant of TasksByExec: every attributed task opens a group of its own *)
TasksByExecUnmerged(c) ==
    LET recs == [k \in 1..Len(c.tasks_by_key) |-> c.tasks_by_key[k].rec]
        kept == SelectSeq(recs, LAMBDA t : ExecOfTask(c, t) # None)
    IN [k \in 1..Len(kept) |-> [exid |-> ExecOfTask(c, kept[k]).i, ts |-> <<kept[k]>>]]

TasksByExec(c) == GroupTasks(c, c.tasks_by_key, <<>>)

SetMin(xs) == CHOOSE x \in xs : \A y \in xs : x <= y
SetMax(xs) == CHOOSE x \in xs : \A y \in xs : x >= y

(* variant of WallEnd: the finish of the last task that has one *)
WallEndOfLast(ts) ==
    LET at == {j \in 1..Len(ts) : ts[j].finish # None}
    IN IF at = {} THEN None ELSE ts[SetMax(at)].finish

(* variant of WallStart: the launch of the first task that has one *)
WallStartOfFirst(ts) ==
    LET at == {j \in 1..Len(ts) : ts[j].launch # None}
    IN IF at = {} THEN None ELSE ts[SetMin(at)].launch

(* lines 288-290 *)
WallStart(ts) ==
    LET xs == {ts[k].launch.i : k \in {j \in 1..Len(ts) : ts[j].launch # None}}
    IN IF xs = {} THEN None ELSE I(SetMin(xs))

WallEnd(ts) ==
    LET xs == {ts[k].finish.i : k \in {j \in 1..Len(ts) : ts[j].finish # None}}
    IN IF xs = {} THEN None ELSE I(SetMax(xs))

(* variant of Makespan: only tasks that carry both timestamps count *)
MakespanBothOnly(ts) ==
    LET both == SelectSeq(ts, LAMBDA t : t.launch # None /\ t.finish # None)
    IN IF both = <<>> THEN None ELSE I(WallEnd(both).i - WallStart(both).i)

Makespan(ts) ==
    LET wall_start == WallStart(ts)
        wall_end == WallEnd(ts)
    IN IF wall_start # None /\ wall_end # None THEN I(wall_end.i - wall_start.i) ELSE None

RECURSIVE SumInt(_, _)
SumInt(ts, f) == IF ts = <<>> THEN 0 ELSE Head(ts)[f] + SumInt(Tail(ts), f)

RECURSIVE SumCpu(_)
SumCpu(ts) == IF ts = <<>> THEN Frac(0, 1) ELSE FAdd(Head(ts).cpu_ms, SumCpu(Tail(ts)))

(* variant of CpuVsWallPct: only a zero run time is guarded against *)
CpuVsWallPctNonZero(cpu_ms, run_ms) ==
    IF run_ms # 0
    THEN LET q == Frac(cpu_ms.num, cpu_ms.den * run_ms) IN Frac(q.num * 100, q.den)
    ELSE FNone

(* lines 306-310: (cpu_ms / float(run_ms)) * 100.0 *)
CpuVsWallPct(cpu_ms, run_ms) ==
    IF run_ms # 0 /\ run_ms > 0
    THEN LET q == Frac(cpu_ms.num, cpu_ms.den * run_ms) IN Frac(q.num * 100, q.den)
    ELSE FNone

(* lines 312-333 *)
Row(c, exid, ts) ==
    LET run_ms == SumInt(ts, "run_ms")
        cpu_ms == SumCpu(ts)
        info == IF exid \in DOMAIN c.exec_info THEN c.exec_info[exid] ELSE EmptyInfo
    IN [executionId |-> exid,
        description |-> IF info.description.t = "str" THEN Strip(info.description.s) ELSE <<>>,
        num_jobs |-> IF exid \in DOMAIN c.exec_jobs THEN Cardinality(c.exec_jobs[exid]) ELSE 0,
        num_tasks |-> Len(ts),
        makespan_ms |-> Makespan(ts),
        task_slot_ms |-> SumInt(ts, "duration_ms"),
        executor_run_ms |-> run_ms,
        executor_cpu_ms |-> cpu_ms,
        cpu_vs_wall_pct |-> CpuVsWallPct(cpu_ms, run_ms)]

(* line 335: key=lambda r: r.get("executionId") or -1 *)
SortKey(r) == IF r.executionId = 0 THEN 0 - 1 ELSE r.executionId

(* list.sort is stable: a row goes after every row whose key is not greater *)
RECURSIVE InsertSorted(_, _)
InsertSorted(rs, r) ==
    IF rs = <<>> THEN <<r>>
    ELSE IF SortKey(rs[Len(rs)]) <= SortKey(r) THEN Append(rs, r)
    ELSE Append(InsertSorted(SubSeq(rs, 1, Len(rs) - 1), r), rs[Len(rs)])

RECURSIVE SortRows(_)
SortRows(rs) ==
    IF rs = <<>> THEN <<>>
    ELSE InsertSorted(SortRows(SubSeq(rs, 1, Len(rs) - 1)), rs[Len(rs)])

(* the rows analyze_sql_breakdown returns for context c *)
Rows(c) ==
    LET groups == TasksByExec(c)
    IN SortRows([k \in 1..Len(groups) |-> Row(c, groups[k].exid, groups[k].ts)])

----------------------------------------------------------------------------
(* Input lines *)

BlankLine ==
    [raw |-> "blank", Event |-> "", executionId |-> None, description |-> None,
     details |-> None, time |-> None, jobId |-> None, hasStageIds |-> FALSE,
     stageIds |-> <<>>, stageInfos |-> <<>>, executionIdProperty |-> None,
     stageId |-> None, taskId |-> None, launchTime |-> None, finishTime |-> None,
     executorRunTime |-> None, executorCpuTime |-> None, taskEndReason |-> None]

JsonLine(event) == [BlankLine EXCEPT !.raw = "json", !.Event = event]

SQLStartLine(exid, desc) ==
    [JsonLine("SparkListenerSQLExecutionStart") EXCEPT !.executionId = exid, !.description = desc]

SQLEndLine(exid, time) ==
    [JsonLine("org.apache.spark.sql.execution.ui.SparkListenerSQLExecutionEnd")
        EXCEPT !.executionId = exid, !.time = time]

JobStartLine(jobId, stageIds, prop) ==
    [JsonLine(EvJobStart) EXCEPT !.jobId = jobId, !.hasStageIds = TRUE,
                                 !.stageIds = stageIds, !.executionIdProperty = prop]

TaskEndLine(stageId, taskId, launch, finish, run, cpu, reason) ==
    [JsonLine(EvTaskEnd) EXCEPT !.stageId = stageId, !.taskId = taskId,
                                !.launchTime = launch, !.finishTime = finish,
                                !.executorRunTime = run, !.executorCpuTime = cpu,
                                !.taskEndReason = reason]

Success == S(StrSuccess)
Failed == D(<<"E", "x", "c", "e", "p", "t", "i", "o", "n">>)

(* the scenario of the end-to-end example *)
ScenarioJob == JobStartLine(I(5), <<I(1)>>, S(<<"7">>))
ScenarioDescription ==
    <<"b", "e", "n", "c", "h", "m", "a", "r", "k", " ", "q", "1", "-", "v", "2", ".", "4">>
ScenarioStart == SQLStartLine(I(7), S(ScenarioDescription))
ScenarioTask == TaskEndLine(I(1), I(0), I(1000), I(1500), I(400), I(300000000), Success)

Lines ==
    {BlankLine, ScenarioStart, SQLEndLine(I(7), I(1600)), ScenarioJob,
     JobStartLine(I(6), <<I(2)>>, S(<<"8">>)),
     JobStartLine(I(6), <<I(2)>>, None),
     ScenarioTask,
     TaskEndLine(I(2), I(0), I(1100), I(1300), I(150), I(50000000), Success),
     TaskEndLine(I(1), I(1), I(900), I(1900), I(700), I(600000000), Success)}

----------------------------------------------------------------------------
(* The state machine: pc = "stream" while paths are opened and lines read, *)
(* "done" once analyze_sql_breakdown has returned, "exited" once the       *)
(* process has ended; read is the input consumed so far, one sequence of   *)
(* lines per path opened; output is what main has written and exit_status  *)
(* the status the process ended with (None while it runs).                 *)

(* nothing opened for writing, nothing written *)
NoOutput == [dest |-> "none", header |-> <<>>, rows |-> <<>>]

RECURSIVE Flatten(_)
Flatten(fs) == IF fs = <<>> THEN <<>> ELSE Head(fs) \o Flatten(Tail(fs))

Init ==
    /\ read = <<>>
    /\ pc = "stream"
    /\ exec_info = EmptyMap
    /\ exec_jobs = EmptyMap
    /\ job_exec = EmptyMap
    /\ stage_job = EmptyMap
    /\ tasks_by_key = <<>>
    /\ results = <<>>
    /\ output = NoOutput
    /\ exit_status = None

(* variant of OpenPath: every path starts from empty mappings *)
OpenPathResets ==
    /\ pc = "stream"
    /\ Len(read) < MaxPaths
    /\ read' = Append(read, <<>>)
    /\ exec_info' = EmptyMap
    /\ exec_jobs' = EmptyMap
    /\ job_exec' = EmptyMap
    /\ stage_job' = EmptyMap
    /\ tasks_by_key' = <<>>
    /\ UNCHANGED <<pc, results, output, exit_status>>

(* line 129: the next path is opened; the mappings of lines 121-125 are    *)
(* created before the loop and are not touched here                        *)
OpenPath ==
    /\ pc = "stream"
    /\ Len(read) < MaxPaths
    /\ read' = Append(read, <<>>)
    /\ UNCHANGED <<pc, exec_info, exec_jobs, job_exec, stage_job, tasks_by_key, results,
                   output, exit_status>>

(* line 130: the next line of the open path is read and leaves context c2; *)
(* the input has at most limit lines                                       *)
Consume(ev, c2, limit) ==
    /\ pc = "stream"
    /\ Len(read) > 0
    /\ Len(Flatten(read)) < limit
    /\ read' = [read EXCEPT ![Len(read)] = Append(@, ev)]
    /\ exec_info' = c2.exec_info
    /\ exec_jobs' = c2.exec_jobs
    /\ job_exec' = c2.job_exec
    /\ stage_job' = c2.stage_job
    /\ tasks_by_key' = c2.tasks_by_key
    /\ UNCHANGED <<pc, results, output, exit_status>>

(* lines 131-140 and the missing else branch: blank or undecodable line,   *)
(* no discriminator, or a discriminator no branch matches                  *)
SkipLine(ev, limit) ==
    /\ ~IsHandled(ev)
    /\ Consume(ev, Ctx, limit)

SQLExecutionStart(ev, limit) ==
    /\ IsEvent(ev) /\ ev.Event \in EvSQLStart
    /\ Consume(ev, OnSQLExecutionStart(Ctx, ev), limit)

SQLExecutionEnd(ev, limit) ==
    /\ IsEvent(ev) /\ ev.Event \in EvSQLEnd
    /\ Consume(ev, OnSQLExecutionEnd(Ctx, ev), limit)

JobStart(ev, limit) ==
    /\ IsEvent(ev) /\ ev.Event = EvJobStart
    /\ Consume(ev, OnJobStart(Ctx, ev), limit)

TaskEnd(ev, limit) ==
    /\ IsEvent(ev) /\ ev.Event = EvTaskEnd
    /\ Consume(ev, OnTaskEnd(Ctx, ev), limit)

(* lines 269-336: the input is exhausted, the rows are computed and returned *)
Aggregate ==
    /\ pc = "stream"
    /\ results' = Rows(Ctx)
    /\ pc' = "done"
    /\ UNCHANGED <<read, exec_info, exec_jobs, job_exec, stage_job, tasks_by_key,
                   output, exit_status>>

ReadLine(ev, limit) ==
    \/ SkipLine(ev, limit)
    \/ SQLExecutionStart(ev, limit)
    \/ SQLExecutionEnd(ev, limit)
    \/ JobStart(ev, limit)
    \/ TaskEnd(ev, limit)

Next ==
    \/ \E ev \in Lines : ReadLine(ev, MaxLines)
    \/ OpenPath
    \/ Aggregate

Spec == Init /\ [][Next]_vars

----------------------------------------------------------------------------
(* Deduplication of task-end events: completions of one (stageId, taskId)  *)
(* key that differ in outcome and in metrics                               *)

FailedTaskA == TaskEndLine(I(1), I(0), I(1000), I(1200), I(100), I(90000000), Failed)
FailedTaskB == TaskEndLine(I(1), I(0), I(1300), I(1450), I(200), I(120000000), S(<<"K", "i", "l", "l", "e", "d">>))
RetriedTask == TaskEndLine(I(1), I(0), I(1600), I(1900), I(300), I(250000000), None)

DedupLines ==
    {BlankLine, ScenarioStart, SQLEndLine(I(7), I(1600)), ScenarioJob,
     ScenarioTask, FailedTaskA, FailedTaskB, RetriedTask,
     TaskEndLine(I(1), None, I(1000), I(1100), I(50), I(10000000), Failed)}

NextDedup ==
    \/ \E ev \in DedupLines : ReadLine(ev, MaxLines)
    \/ OpenPath
    \/ Aggregate

SpecDedup == Init /\ [][NextDedup]_vars

(* the lines read so far, across all paths, in arrival order *)
Arrived == Flatten(read)

(* a task-end event that reaches the task store, and its key (lines 193-202) *)
IsStoredTaskEnd(ev) ==
    IsEvent(ev) /\ ev.Event = EvTaskEnd /\ _as_int(ev.stageId, None) # None

KeyOfLine(ev) == <<_as_int(ev.stageId, None).i, _as_int(ev.taskId, None)>>

(* positions in the arrival order of the task-end events of a key *)
ArrivalsOf(key) ==
    {n \in 1..Len(Arrived) : IsStoredTaskEnd(Arrived[n]) /\ KeyOfLine(Arrived[n]) = key}

Retained(key) == tasks_by_key[CHOOSE k \in KeyIndex(tasks_by_key, key) : TRUE].rec

StoredKeys == {tasks_by_key[k].key : k \in 1..Len(tasks_by_key)}

(* C1: whatever the arrival order of the task-end events of a key, the     *)
(* record the task store holds for the key is a successful one as soon as  *)
(* one of those events was successful.                                     *)
C1_SuccessRetained ==
    \A key \in StoredKeys :
        (\E n \in ArrivalsOf(key) : _success_from_task_end(Arrived[n]))
            => Retained(key).success

(* ingestion is over; a success of key (1, 0) arrived before a failure of  *)
(* the same key and the store holds a successful record                    *)
C1_Witness ==
    /\ pc = "done"
    /\ \E n, m \in ArrivalsOf(<<1, I(0)>>) :
          /\ n < m
          /\ _success_from_task_end(Arrived[n])
          /\ ~_success_from_task_end(Arrived[m])
    /\ Retained(<<1, I(0)>>).success

(* exactly two task-end events of the key arrived, both failures *)
TwoFailures(key, n, m) ==
    /\ ArrivalsOf(key) = {n, m}
    /\ n < m
    /\ ~_success_from_task_end(Arrived[n])
    /\ ~_success_from_task_end(Arrived[m])

(* C2 as stated: of two failed task-end events of one key the store keeps  *)
(* the later-arriving one.                                                 *)
C2_LaterFailureRetained ==
    \A key \in StoredKeys : \A n, m \in ArrivalsOf(key) :
        TwoFailures(key, n, m) => Retained(key) = TaskRecord(Arrived[m], key[1])

(* C2 amended: of two failed task-end events of one key the store keeps    *)
(* the earlier-arriving one.                                               *)
C2_EarlierFailureRetained ==
    \A key \in StoredKeys : \A n, m \in ArrivalsOf(key) :
        TwoFailures(key, n, m) => Retained(key) = TaskRecord(Arrived[n], key[1])

(* ingestion is over; two different failures of key (1, 0) arrived and the *)
(* store holds the record of the first                                     *)
C2_Witness ==
    /\ pc = "done"
    /\ \E n, m \in ArrivalsOf(<<1, I(0)>>) :
          /\ TwoFailures(<<1, I(0)>>, n, m)
          /\ TaskRecord(Arrived[n], 1) # TaskRecord(Arrived[m], 1)
          /\ Retained(<<1, I(0)>>) = TaskRecord(Arrived[n], 1)

----------------------------------------------------------------------------
(* Metrics of one execution: tasks of stage 1 that lack a launch or a      *)
(* finish timestamp, finish before they launch, or report a zero or a      *)
(* negative run time                                                       *)

LaunchOnlyTask == TaskEndLine(I(1), I(1), I(800), None, I(0), I(100000000), Success)
FinishOnlyTask == TaskEndLine(I(1), I(2), None, I(1700), I(0 - 400), I(0), Success)
SkewedTask == TaskEndLine(I(1), I(3), I(2000), I(1900), I(0 - 100), I(50000000), Success)

MetricLines ==
    {BlankLine, ScenarioStart, SQLEndLine(I(7), I(1600)), ScenarioJob,
     ScenarioTask, LaunchOnlyTask, FinishOnlyTask, SkewedTask}

NextMetrics ==
    \/ \E ev \in MetricLines : ReadLine(ev, MaxLines)
    \/ OpenPath
    \/ Aggregate

SpecMetrics == Init /\ [][NextMetrics]_vars

(* the retained tasks that resolve to execution exid, in store order *)
AttributedTo(c, exid) ==
    LET recs == [k \in 1..Len(c.tasks_by_key) |-> c.tasks_by_key[k].rec]
    IN SelectSeq(recs, LAMBDA t : ExecOfTask(c, t) = I(exid))

Range(f) == {f[k] : k \in DOMAIN f}

Launches(tasks) == {t.launch.i : t \in {u \in tasks : u.launch # None}}
Finishes(tasks) == {t.finish.i : t \in {u \in tasks : u.finish # None}}

(* m is the span from the earliest of the launches to the latest of the finishes *)
IsSpan(m, launches, finishes) ==
    \E l \in launches, f \in finishes :
        /\ \A x \in launches : l <= x
        /\ \A x \in finishes : x <= f
        /\ m = I(f - l)

(* C3 as stated: makespan_ms of a row is max(finish) - min(launch) over    *)
(* the attributed tasks that have both timestamps, and null when no        *)
(* attributed task has both.                                               *)
C3_MakespanOverComplete ==
    pc = "done" =>
        \A k \in 1..Len(results) :
            LET ts == Range(AttributedTo(Ctx, results[k].executionId))
                both == {t \in ts : t.launch # None /\ t.finish # None}
            IN IF both = {} THEN results[k].makespan_ms = None
               ELSE IsSpan(results[k].makespan_ms, Launches(both), Finishes(both))

(* C3 amended: makespan_ms of a row is the latest finish among the         *)
(* attributed tasks that have a finish minus the earliest launch among the *)
(* attributed tasks that have a launch, and null when no attributed task   *)
(* has a launch or none has a finish.                                      *)
C3_MakespanFirstLaunchLastFinish ==
    pc = "done" =>
        \A k \in 1..Len(results) :
            LET ts == Range(AttributedTo(Ctx, results[k].executionId))
            IN IF Launches(ts) = {} \/ Finishes(ts) = {} THEN results[k].makespan_ms = None
               ELSE IsSpan(results[k].makespan_ms, Launches(ts), Finishes(ts))

(* the row of execution 7 spans from the launch of a task without a finish *)
(* to the finish of another task                                           *)
C3_Witness ==
    /\ pc = "done"
    /\ Len(results) = 1
    /\ \E t \in Range(AttributedTo(Ctx, 7)) : t.launch = I(800) /\ t.finish = None
    /\ results[1].makespan_ms = I(700)

(* makespan_ms of the row execution exid gets from context c, None without a row *)
MakespanOf(c, exid) ==
    LET rows == Rows(c)
        at == {k \in 1..Len(rows) : rows[k].executionId = exid}
    IN IF at = {} THEN None ELSE rows[CHOOSE k \in at : TRUE].makespan_ms

ExecIds(c) == {c.job_exec[j] : j \in DOMAIN c.job_exec}

(* C4: a step that adds one task to the tasks attributed to an execution   *)
(* whose makespan_ms is not null leaves the makespan_ms not null and not   *)
(* smaller.                                                                *)
C4_MakespanNeverShrinks ==
    [][\A exid \in ExecIds(Ctx) :
          LET old == AttributedTo(Ctx, exid)
              new == AttributedTo(Ctx', exid)
          IN (/\ Range(old) \subseteq Range(new)
              /\ Len(new) = Len(old) + 1
              /\ MakespanOf(Ctx, exid) # None)
             => (/\ MakespanOf(Ctx', exid) # None
                 /\ MakespanOf(Ctx', exid).i >= MakespanOf(Ctx, exid).i)]_vars

(* execution 7 has two or more attributed tasks; without the last one its  *)
(* makespan was not null, and the last one widened it                      *)
C4_Witness ==
    LET ts == AttributedTo(Ctx, 7)
        before == SubSeq(ts, 1, Len(ts) - 1)
    IN /\ Len(ts) >= 2
       /\ Makespan(before) # None
       /\ MakespanOf(Ctx, 7) # None
       /\ MakespanOf(Ctx, 7).i > Makespan(before).i

(* pct is 100 * cpu_ms / run_ms, by cross-multiplication *)
IsPct(pct, cpu_ms, run_ms) ==
    ~pct.none /\ pct.num * cpu_ms.den * run_ms = 100 * cpu_ms.num * pct.den

(* C5 as stated: cpu_vs_wall_pct of a row is null when the summed run time *)
(* is 0 and 100 * executor_cpu_ms / executor_run_ms in every other case.   *)
C5_PctNullOnlyAtZero ==
    pc = "done" =>
        \A k \in 1..Len(results) :
            LET r == results[k] IN
            IF r.executor_run_ms = 0 THEN r.cpu_vs_wall_pct = FNone
            ELSE IsPct(r.cpu_vs_wall_pct, r.executor_cpu_ms, r.executor_run_ms)

(* C5 amended: cpu_vs_wall_pct of a row is null when the summed run time   *)
(* is 0 or negative and 100 * executor_cpu_ms / executor_run_ms when it is *)
(* positive.                                                               *)
C5_PctNullUnlessPositive ==
    pc = "done" =>
        \A k \in 1..Len(results) :
            LET r == results[k] IN
            IF r.executor_run_ms <= 0 THEN r.cpu_vs_wall_pct = FNone
            ELSE IsPct(r.cpu_vs_wall_pct, r.executor_cpu_ms, r.executor_run_ms)

(* a row whose summed run time is negative and whose percentage is null *)
C5_Witness ==
    /\ pc = "done"
    /\ \E k \in 1..Len(results) :
          results[k].executor_run_ms < 0 /\ results[k].cpu_vs_wall_pct = FNone

----------------------------------------------------------------------------
(* Reference: the whole input as one fold, without file boundaries *)

RECURSIVE FoldLines(_, _)
FoldLines(c, ls) == IF ls = <<>> THEN c ELSE FoldLines(HandleLine(c, Head(ls)), Tail(ls))

(* the rows a single source holding the lines ls yields *)
AnalyzeLines(ls) == Rows(FoldLines(EmptyCtx, ls))

IsPermutation(ls, ms) ==
    /\ Len(ls) = Len(ms)
    /\ \A x \in Range(ls) \cup Range(ms) :
          Cardinality({k \in 1..Len(ls) : ls[k] = x}) = Cardinality({k \in 1..Len(ms) : ms[k] = x})

C7_SequentialEqualsConcatenation ==
    pc = "done" => results = AnalyzeLines(Flatten(read))

(* two paths were read; the task-end is in the first, the job-start that   *)
(* names its stage only in the second, and the task got its row            *)
C7_Witness ==
    /\ pc = "done"
    /\ Len(read) = 2
    /\ read[1] = <<ScenarioTask>>
    /\ ScenarioJob \in Range(read[2])
    /\ Len(results) = 1
    /\ results[1].executionId = 7 /\ results[1].num_tasks = 1

(* a task-end that reaches the store but whose stage, as the mappings      *)
(* stand, has no job or whose job has no execution                         *)
IsUnattributable(ev) ==
    /\ IsStoredTaskEnd(ev)
    /\ LET sid == _as_int(ev.stageId, None).i
       IN sid \notin DOMAIN stage_job \/ stage_job[sid] \notin DOMAIN job_exec

RECURSIVE SumTasks(_)
SumTasks(rows) == IF rows = <<>> THEN 0 ELSE Head(rows).num_tasks + SumTasks(Tail(rows))

(* C8: the rows returned are those the input yields once the task-ends of  *)
(* stages without a job, or with a job without an execution, are taken out *)
(* of it, and the rows count no such task.                                 *)
C8_UnattributableDropped ==
    pc = "done" =>
        /\ results = AnalyzeLines(SelectSeq(Arrived, LAMBDA ev : ~IsUnattributable(ev)))
        /\ SumTasks(results) =
              Cardinality({k \in 1..Len(tasks_by_key) :
                             /\ tasks_by_key[k].key[1] \in DOMAIN stage_job
                             /\ stage_job[tasks_by_key[k].key[1]] \in DOMAIN job_exec})

(* the store holds a task of a stage no job-start listed next to the task *)
(* of execution 7, which alone got a row                                   *)
C8_Witness ==
    /\ pc = "done"
    /\ \E k \in 1..Len(tasks_by_key) : tasks_by_key[k].key[1] \notin DOMAIN stage_job
    /\ Len(results) = 1
    /\ results[1].executionId = 7 /\ results[1].num_tasks = 1

(* the execution ids some retained task resolves to through stage_job and job_exec *)
AttributedExecs ==
    {job_exec[stage_job[tasks_by_key[k].key[1]]] :
        k \in {j \in 1..Len(tasks_by_key) :
                 /\ tasks_by_key[j].key[1] \in DOMAIN stage_job
                 /\ stage_job[tasks_by_key[j].key[1]] \in DOMAIN job_exec}}

(* C10: the rows returned are one for each execution id that a retained    *)
(* task resolves to and none for any other execution id, whether or not    *)
(* an execution-start or execution-end was seen for it.                    *)
C10_OneRowPerAttributedExecution ==
    pc = "done" =>
        /\ {results[k].executionId : k \in 1..Len(results)} = AttributedExecs
        /\ Len(results) = Cardinality(AttributedExecs)

(* execution 7 was started but has no task and no row; execution 8 has a   *)
(* task and a row but no execution-start                                   *)
C10_Witness ==
    /\ pc = "done"
    /\ 7 \in DOMAIN exec_info /\ 8 \notin DOMAIN exec_info
    /\ Len(results) = 1
    /\ results[1].executionId = 8

----------------------------------------------------------------------------
(* Order of the rows: executions 0 and -1, whose sort keys coincide        *)

MaxSortLines == 4

SortLines ==
    {BlankLine, ScenarioStart, SQLEndLine(I(7), I(1600)),
     JobStartLine(I(5), <<I(1)>>, S(<<"0">>)),
     JobStartLine(I(6), <<I(2)>>, S(<<"-", "1">>)),
     ScenarioTask,
     TaskEndLine(I(2), I(0), I(1100), I(1300), I(150), I(50000000), Success)}

NextSort ==
    \/ \E ev \in SortLines : ReadLine(ev, MaxSortLines)
    \/ OpenPath
    \/ Aggregate

SpecSort == Init /\ [][NextSort]_vars

(* C9: the rows returned are in ascending order of executionId. *)
C9_RowsAscending ==
    pc = "done" =>
        \A k \in 1..(Len(results) - 1) : results[k].executionId < results[k + 1].executionId

----------------------------------------------------------------------------
(* main (lines 365-381) and the end of the process (lines 383-384)         *)

(* write_csv, lines 339-358: the columns of the header *)
Fieldnames ==
    <<"executionId", "description", "num_jobs", "num_tasks", "makespan_ms", "task_slot_ms",
      "executor_run_ms", "executor_cpu_ms", "cpu_vs_wall_pct">>

(* write_csv, lines 359-362: the header, then one record per row *)
write_csv(dest, rows) == [dest |-> dest, header |-> Fieldnames, rows |-> rows]

(* variant of ReturnOfMain: the value 1 is returned after the table *)
ReturnOfMainOne(rows) == IF rows = <<>> THEN I(2) ELSE I(1)

(* lines 372-375 and the end of main's body at line 381: 2 when there are  *)
(* no rows, otherwise main falls off its end and returns None              *)
ReturnOfMain(rows) == IF rows = <<>> THEN I(2) ELSE None

(* line 384, sys.exit(v): None is status 0, an integer is the status *)
SysExit(v) == IF v = None THEN I(0) ELSE v

(* lines 129-130 with 70-83: opening the next path or reading the open one *)
(* raises; nothing catches the exception, the interpreter ends the process *)
(* with status 1 and main never reaches line 372                           *)
InputFails ==
    /\ pc = "stream"
    /\ pc' = "failed"
    /\ exit_status' = I(1)
    /\ UNCHANGED <<read, exec_info, exec_jobs, job_exec, stage_job, tasks_by_key, results,
                   output>>

(* lines 372-375: no rows, a message on stderr, return 2 *)
NoRows ==
    /\ pc = "done"
    /\ results = <<>>
    /\ pc' = "exited"
    /\ exit_status' = SysExit(ReturnOfMain(results))
    /\ UNCHANGED <<read, exec_info, exec_jobs, job_exec, stage_job, tasks_by_key, results,
                   output>>

(* variant of WriteFile: the output file is created before the analysis *)
WriteFileOpensFirst ==
    /\ pc = "stream"
    /\ read = <<>>
    /\ output = NoOutput
    /\ output' = [dest |-> "file", header |-> <<>>, rows |-> <<>>]
    /\ UNCHANGED <<read, pc, exec_info, exec_jobs, job_exec, stage_job, tasks_by_key, results,
                   exit_status>>

(* lines 377-379: --output-file was given *)
WriteFile ==
    /\ pc = "done"
    /\ results # <<>>
    /\ output' = write_csv("file", results)
    /\ pc' = "exited"
    /\ exit_status' = SysExit(ReturnOfMain(results))
    /\ UNCHANGED <<read, exec_info, exec_jobs, job_exec, stage_job, tasks_by_key, results>>

(* lines 380-381: no --output-file, the table goes to stdout *)
WriteStdout ==
    /\ pc = "done"
    /\ results # <<>>
    /\ output' = write_csv("stdout", results)
    /\ pc' = "exited"
    /\ exit_status' = SysExit(ReturnOfMain(results))
    /\ UNCHANGED <<read, exec_info, exec_jobs, job_exec, stage_job, tasks_by_key, results>>

MainLines ==
    {BlankLine, ScenarioStart, SQLEndLine(I(7), I(1600)), ScenarioJob, ScenarioTask,
     TaskEndLine(I(2), I(0), I(1100), I(1300), I(150), I(50000000), Success)}

NextMain ==
    \/ \E ev \in MainLines : ReadLine(ev, MaxLines)
    \/ OpenPath
    \/ InputFails
    \/ Aggregate
    \/ NoRows
    \/ WriteFile
    \/ WriteStdout

SpecMain == Init /\ [][NextMain]_vars

C18_OutputAfterAnalysis ==
    /\ output # NoOutput =>
          /\ pc = "exited"
          /\ results = Rows(Ctx)
          /\ results = AnalyzeLines(Flatten(read))
          /\ output.rows = results
    /\ pc = "failed" => output = NoOutput /\ exit_status = I(1) /\ results = <<>>

C18_Witness ==
    /\ pc = "failed"
    /\ Len(read) = 2
    /\ Rows(Ctx) # <<>>
    /\ output = NoOutput

----------------------------------------------------------------------------
(* Order of the input events: the same events in every arrival order       *)

OtherStart == SQLStartLine(I(7), S(<<"q", "2">>))
SiblingTask == TaskEndLine(I(1), I(1), I(900), I(1900), I(700), I(600000000), Success)

OrderLines ==
    {ScenarioStart, OtherStart, ScenarioJob, JobStartLine(I(6), <<I(1)>>, S(<<"8">>)),
     ScenarioTask, RetriedTask, SiblingTask}

(* the input holds execution-starts, job-starts and task-ends, the events  *)
(* whose effect could depend on the order                                  *)
NextOrder ==
    \/ \E ev \in OrderLines :
          \/ SQLExecutionStart(ev, MaxLines)
          \/ JobStart(ev, MaxLines)
          \/ TaskEnd(ev, MaxLines)
    \/ OpenPath
    \/ Aggregate

SpecOrder == Init /\ [][NextOrder]_vars

(* the lines ls in every order *)
Orderings(ls) ==
    {[k \in 1..Len(ls) |-> ls[p[k]]] : p \in Permutations(1..Len(ls))}

IsStoredJobStart(ev) == IsEvent(ev) /\ ev.Event = EvJobStart /\ _as_int(ev.jobId, None) # None

IsMappedJobStart(ev) ==
    IsStoredJobStart(ev) /\ ev.executionIdProperty # None /\ IntOk(ev.executionIdProperty)

IsStoredSQLStart(ev) ==
    IsEvent(ev) /\ ev.Event \in EvSQLStart /\ _as_int(ev.executionId, None) # None

(* no two events of ls compete for one key of a mapping or of the task     *)
(* store: task-ends of one key are equal, job-starts listing a common      *)
(* stage name one job, job-starts of one job carry one execution id, and   *)
(* execution-starts of one execution are equal                             *)
ConflictFree(ls) ==
    \A i, j \in 1..Len(ls) :
        LET a == ls[i]
            b == ls[j]
        IN /\ IsStoredTaskEnd(a) /\ IsStoredTaskEnd(b) /\ KeyOfLine(a) = KeyOfLine(b) => a = b
           /\ IsStoredJobStart(a) /\ IsStoredJobStart(b)
                 /\ StageIdsOf(a) \cap StageIdsOf(b) # {}
                 => _as_int(a.jobId, None) = _as_int(b.jobId, None)
           /\ IsMappedJobStart(a) /\ IsMappedJobStart(b)
                 /\ _as_int(a.jobId, None) = _as_int(b.jobId, None)
                 => IntOf(a.executionIdProperty) = IntOf(b.executionIdProperty)
           /\ IsStoredSQLStart(a) /\ IsStoredSQLStart(b)
                 /\ _as_int(a.executionId, None) = _as_int(b.executionId, None)
                 => a = b

----------------------------------------------------------------------------
(* The denominator of cpu_vs_wall_pct                                      *)

(* C13: as the module documentation (lines 3-10) puts it, cpu_vs_wall_pct  *)
(* of a row is its executor_cpu_ms as a percentage of its makespan_ms,     *)
(* whenever the makespan is a positive number.                             *)
C13_PctOfMakespan ==
    pc = "done" =>
        \A k \in 1..Len(results) :
            LET r == results[k] IN
            r.makespan_ms # None /\ r.makespan_ms.i > 0 =>
                IsPct(r.cpu_vs_wall_pct, r.executor_cpu_ms, r.makespan_ms.i)

----------------------------------------------------------------------------
(* Attribution as a function of the whole input, wherever the job-start    *)
(* stands relative to the task-end                                         *)

(* the job of the last job-start of ls that lists stage sid *)
LastJobOf(ls, sid) ==
    LET at == {n \in 1..Len(ls) : IsStoredJobStart(ls[n]) /\ sid \in StageIdsOf(ls[n])}
    IN IF at = {} THEN None ELSE _as_int(ls[SetMax(at)].jobId, None)

(* the execution of the last job-start of ls that maps job *)
LastExecOf(ls, job) ==
    LET at == {n \in 1..Len(ls) : IsMappedJobStart(ls[n]) /\ _as_int(ls[n].jobId, None) = job}
    IN IF at = {} THEN None ELSE I(IntOf(ls[SetMax(at)].executionIdProperty))

(* the execution the input ls gives the tasks of stage sid *)
InputExecOf(ls, sid) ==
    IF LastJobOf(ls, sid) = None THEN None ELSE LastExecOf(ls, LastJobOf(ls, sid))

(* num_tasks of the row of execution exid, 0 when there is no such row *)
NumTasksOf(exid) ==
    LET at == {k \in 1..Len(results) : results[k].executionId = exid}
    IN IF at = {} THEN 0 ELSE results[CHOOSE k \in at : TRUE].num_tasks

(* the keys of the task-ends of the input *)
InputKeys ==
    {KeyOfLine(Arrived[n]) : n \in {m \in 1..Len(Arrived) : IsStoredTaskEnd(Arrived[m])}}

(* every execution id the input or the rows name *)
NamedExecs ==
    {IntOf(Arrived[n].executionIdProperty) : n \in {m \in 1..Len(Arrived) : IsMappedJobStart(Arrived[m])}}
        \cup {results[k].executionId : k \in 1..Len(results)}

(* C14: the tasks a row counts are the task keys of the input whose stage  *)
(* the whole input maps to the row's execution, whether the job-start      *)
(* naming the stage was read before or after the task-end; an execution    *)
(* the input maps no task to has no row.                                   *)
C14_AttributedEitherOrder ==
    pc = "done" =>
        \A exid \in NamedExecs :
            NumTasksOf(exid) =
                Cardinality({key \in InputKeys : InputExecOf(Arrived, key[1]) = I(exid)})

(* the task-end was read before the job-start naming its stage, and a      *)
(* second one after it                                                     *)
C14_Witness ==
    /\ pc = "done"
    /\ Arrived = <<ScenarioTask, ScenarioJob, SiblingTask>>
    /\ NumTasksOf(7) = 2

----------------------------------------------------------------------------
(* Job-starts that re-map a job to another execution or re-list a stage    *)
(* under another job                                                       *)

MaxJobLines == 4

RemappedJob == JobStartLine(I(5), <<I(1)>>, S(<<"8">>))
RelistingJob == JobStartLine(I(6), <<I(1)>>, S(<<"7">>))
UnmappedJob == JobStartLine(I(6), <<I(1)>>, S(<<"x">>))

JobLines == {ScenarioJob, RemappedJob, RelistingJob, UnmappedJob, ScenarioTask}

(* the input holds job-starts and task-ends only *)
NextJobs ==
    \/ \E ev \in JobLines : JobStart(ev, MaxJobLines) \/ TaskEnd(ev, MaxJobLines)
    \/ OpenPath
    \/ Aggregate

SpecJobs == Init /\ [][NextJobs]_vars

(* the jobs for which some job-start of the input carried execution exid *)
JobsCarrying(exid) ==
    {_as_int(Arrived[n].jobId, None).i :
        n \in {m \in 1..Len(Arrived) :
                 IsMappedJobStart(Arrived[m]) /\ IntOf(Arrived[m].executionIdProperty) = exid}}

(* C15: num_jobs of every row is the number of distinct job ids for which  *)
(* some job-start of the input carried the row's execution id, whether or  *)
(* not a task of those jobs was attributed and whether or not a later      *)
(* job-start mapped the job to another execution.                          *)
C15_NumJobsCountsEveryCarrier ==
    pc = "done" =>
        \A k \in 1..Len(results) :
            results[k].num_jobs = Cardinality(JobsCarrying(results[k].executionId))

(* job 5 carried execution 7 and was then re-mapped to 8; the row of 7,    *)
(* whose task came through job 6, still counts both jobs                   *)
C15_Witness ==
    /\ pc = "done"
    /\ Arrived = <<ScenarioJob, RemappedJob, RelistingJob, ScenarioTask>>
    /\ job_exec[5] = 8
    /\ Len(results) = 1
    /\ results[1].executionId = 7
    /\ results[1].num_jobs = 2

(* the stage ids the job-starts of the input list *)
ListedStages ==
    UNION {StageIdsOf(Arrived[n]) : n \in {m \in 1..Len(Arrived) : IsStoredJobStart(Arrived[m])}}

(* C16: after any sequence of job-starts every stage id some job-start     *)
(* listed maps to the job id of the last job-start that listed it, whether *)
(* or not that job-start carried an execution id that parses, and the rows *)
(* count the tasks of a stage under the execution of that job only.        *)
C16_StageMapsToLastJob ==
    /\ DOMAIN stage_job = ListedStages
    /\ \A sid \in ListedStages : I(stage_job[sid]) = LastJobOf(Arrived, sid)
    /\ pc = "done" =>
          \A exid \in NamedExecs :
              NumTasksOf(exid) =
                  Cardinality({key \in InputKeys :
                                 LET job == LastJobOf(Arrived, key[1])
                                 IN /\ job # None
                                    /\ job.i \in DOMAIN job_exec
                                    /\ job_exec[job.i] = exid})

(* stage 1 was listed by job 5 of execution 7 and then by job 6, whose     *)
(* job-start carried no execution id that parses: the task has no row      *)
C16_Witness ==
    /\ pc = "done"
    /\ Arrived = <<ScenarioJob, ScenarioTask, UnmappedJob>>
    /\ stage_job[1] = 6
    /\ job_exec = (5 :> 7)
    /\ results = <<>>

----------------------------------------------------------------------------
(* Lines that carry nothing: blank, undecodable, without a discriminator,  *)
(* with a discriminator no branch matches, or of a recognized event that   *)
(* lacks its identifier                                                    *)

(* lines 133-136: json.loads raises *)
GarbageLine == [BlankLine EXCEPT !.raw = "garbage"]

(* lines 138-140: decodable, but no Event field *)
NoEventLine == JsonLine("")

UnrecognizedLine == JsonLine("SparkListenerStageCompleted")

StartWithoutId == SQLStartLine(None, S(<<"q", "2">>))
EndWithoutId == SQLEndLine(None, I(1600))
JobWithoutId == JobStartLine(None, <<I(1)>>, S(<<"7">>))
TaskWithoutStage == TaskEndLine(None, I(0), I(1000), I(1500), I(400), I(300000000), Success)

FrameLines ==
    {BlankLine, GarbageLine, NoEventLine, UnrecognizedLine, StartWithoutId, EndWithoutId,
     JobWithoutId, TaskWithoutStage, ScenarioStart, ScenarioJob, ScenarioTask}

NextFrame ==
    \/ \E ev \in FrameLines : ReadLine(ev, MaxLines)
    \/ OpenPath
    \/ Aggregate

SpecFrame == Init /\ [][NextFrame]_vars

(* the line is empty or undecodable, has no discriminator or one that is   *)
(* not recognized, or is a recognized event without its identifier         *)
IsInert(ev) ==
    \/ ev.raw # "json"
    \/ ev.Event = ""
    \/ ev.Event \notin (EvSQLStart \cup EvSQLEnd \cup {EvJobStart, EvTaskEnd})
    \/ ev.Event \in (EvSQLStart \cup EvSQLEnd) /\ ev.executionId = None
    \/ ev.Event = EvJobStart /\ ev.jobId = None
    \/ ev.Event = EvTaskEnd /\ ev.stageId = None

(* C17: a step that reads an empty or undecodable line, a line whose       *)
(* discriminator is missing or not recognized, or a recognized event that  *)
(* lacks its required identifier leaves the four correlation mappings and  *)
(* the task store unchanged, and the run goes on reading.                  *)
C17_InertLinesChangeNothing ==
    [][(Len(Arrived') = Len(Arrived) + 1 /\ IsInert(Arrived'[Len(Arrived')]))
          => /\ UNCHANGED <<exec_info, exec_jobs, job_exec, stage_job, tasks_by_key>>
             /\ pc' = "stream"]_vars

(* a job-start without a job id was read between two lines that took       *)
(* effect                                                                  *)
C17_Witness ==
    /\ pc = "stream"
    /\ Arrived = <<ScenarioJob, JobWithoutId, ScenarioTask>>
    /\ stage_job = (1 :> 5)
    /\ exec_jobs = (7 :> {5})
    /\ Len(tasks_by_key) = 1

----------------------------------------------------------------------------
(* Task-ends without an end reason, and the finality of a stored success   *)

RetryLines == {ScenarioJob, ScenarioTask, FailedTaskA, FailedTaskB, RetriedTask}

(* the input holds job-starts and task-ends only *)
NextRetry ==
    \/ \E ev \in RetryLines : JobStart(ev, MaxLines) \/ TaskEnd(ev, MaxLines)
    \/ OpenPath
    \/ Aggregate

SpecRetry == Init /\ [][NextRetry]_vars

(* C19: a task-end that carries no end-reason field and arrives when no    *)
(* success of its key has arrived is stored with success = TRUE, in place  *)
(* of the failed record of the key if there was one, and is the record the *)
(* store holds from then on.                                               *)
C19_NoReasonIsSuccess ==
    \A m \in 1..Len(Arrived) :
        LET ev == Arrived[m] IN
        (/\ IsStoredTaskEnd(ev)
         /\ ev.taskEndReason = None
         /\ \A n \in ArrivalsOf(KeyOfLine(ev)) : n < m => ~_success_from_task_end(Arrived[n]))
            => /\ Retained(KeyOfLine(ev)).success
               /\ Retained(KeyOfLine(ev)) = TaskRecord(ev, KeyOfLine(ev)[1])

(* a failure of key (1, 0) was stored, the task-end without end reason     *)
(* replaced it, and a later failure did not                                *)
C19_Witness ==
    /\ Arrived = <<FailedTaskA, RetriedTask, FailedTaskA>>
    /\ Len(tasks_by_key) = 1
    /\ Retained(<<1, I(0)>>).success
    /\ Retained(<<1, I(0)>>).run_ms = 300

(* the first successful task-end of a key in the arrival order *)
FirstSuccess(key) ==
    Arrived[SetMin({n \in ArrivalsOf(key) : _success_from_task_end(Arrived[n])})]

(* C20: a step taken when the record stored for a key is successful leaves *)
(* that record as it is; the record is the one of the first successful     *)
(* task-end of the key, and when the rows are computed from a store that   *)
(* holds this key alone, the run time of the row is that record's.         *)
C20_StoredSuccessIsFinal ==
    [][\A key \in StoredKeys :
          Retained(key).success =>
              /\ key \in StoredKeys'
              /\ Retained(key)' = Retained(key)
              /\ Retained(key) = TaskRecord(FirstSuccess(key), key[1])
              /\ (pc' = "done" /\ StoredKeys = {key} /\ Len(results') = 1) =>
                    results'[1].executor_run_ms = TaskRecord(FirstSuccess(key), key[1]).run_ms]_vars

(* two different successes of key (1, 0) arrived; the first one is stored  *)
(* and is the one the row reports                                          *)
C20_Witness ==
    /\ pc = "done"
    /\ Arrived = <<ScenarioJob, ScenarioTask, RetriedTask>>
    /\ Retained(<<1, I(0)>>) = TaskRecord(ScenarioTask, 1)
    /\ Len(results) = 1
    /\ results[1].executor_run_ms = 400

----------------------------------------------------------------------------
(* Rows are never empty of tasks or of jobs                                *)

(* the jobs through which a stored task reaches execution exid *)
AttributingJobs(exid) ==
    {stage_job[key[1]] :
        key \in {k \in StoredKeys : /\ k[1] \in DOMAIN stage_job
                                   /\ stage_job[k[1]] \in DOMAIN job_exec
                                   /\ job_exec[stage_job[k[1]]] = exid}}

(* C21: every job that is mapped to an execution is a member of that       *)
(* execution's job set, and every row returned has num_tasks >= 1 and      *)
(* num_jobs >= 1: some stored task reaches the row's execution through a   *)
(* job, and each such job is in the job set of the execution.              *)
C21_RowsHaveTasksAndJobs ==
    /\ \A job \in DOMAIN job_exec :
          job_exec[job] \in DOMAIN exec_jobs /\ job \in exec_jobs[job_exec[job]]
    /\ pc = "done" =>
          \A k \in 1..Len(results) :
              LET r == results[k] IN
              /\ r.num_tasks >= 1
              /\ r.num_jobs >= 1
              /\ AttributingJobs(r.executionId) # {}
              /\ AttributingJobs(r.executionId) \subseteq exec_jobs[r.executionId]

(* job 5 was mapped to execution 7 and then to 8; the task of its stage    *)
(* gives execution 8 a row with one task and one job                       *)
C21_Witness ==
    /\ pc = "done"
    /\ Arrived = <<ScenarioJob, RemappedJob, ScenarioTask>>
    /\ Len(results) = 1
    /\ results[1].executionId = 8
    /\ results[1].num_tasks = 1
    /\ results[1].num_jobs = 1

----------------------------------------------------------------------------
(* The sign of makespan_ms                                                 *)

(* C22: in every row returned makespan_ms is null or not negative,         *)
(* whatever launch and finish timestamps the attributed task-ends carry.   *)
C22_MakespanNonNegative ==
    pc = "done" =>
        \A k \in 1..Len(results) :
            results[k].makespan_ms = None \/ results[k].makespan_ms.i >= 0

TypeOK ==
    /\ pc \in {"stream", "done", "exited", "failed"}
    /\ Len(read) <= MaxPaths
    /\ pc = "stream" => results = <<>>

====
